---- MODULE Spec2Model ----
(***************************************************************************)
(* Model of the stepper motor driver (class Stepper, stepper.py), the      *)
(* LED indicator (class LED, led.py) and normalize (functions.py).         *)
(*                                                                         *)
(* Numbers.  Counters and step counts are Python ints.  Times are floats   *)
(* in the source; here they are exact fixed-point numbers:                 *)
(*   - a revolution period (secPerRev, minSpeed, maxSpeed) is counted in   *)
(*     ticks of 1/TimeScale second;                                        *)
(*   - self.delay is counted in units of 1/(TimeScale*StepsPerRev) second, *)
(*     so that secPerRev/2050 is exact;                                    *)
(*   - a percentage is counted in 1/PctScale (0.5 is 50, 50 is 5000);      *)
(*   - an angle is counted in 1/AngleScale degree.                         *)
(* Optional arguments (angle=None, steps=None) are sequences: <<>> is      *)
(* None and <<v>> is the value v.                                          *)
(***************************************************************************)
EXTENDS Integers, Sequences, FiniteSets, TLC

\* ------------------------------------------------------------ bounds ----
MaxCalls == 4           \* calls made on the driver in one behaviour

\* ------------------------------------------------- program constants ----
TimeScale == 10000      \* ticks per second for revolution periods
PctScale == 100         \* units per 1 of a percentage argument
AngleScale == 10        \* units per degree of an angle argument
StepsPerRev == 2050     \* secPerRev/2050
DelayUnitsPerTick == 2050   \* delay units in one tick: a delay unit is
                            \* 1/(TimeScale*2050) second
minSpeed == 10 * TimeScale
maxSpeed == 4 * TimeScale
InitDelay == 39975      \* 0.00195 s = 39975 / (TimeScale*StepsPerRev) s
StepsPerDegreeNum == 14222      \* 1.4222 = 14222/10000
StepsPerDegreeDen == 10000
HomeRange == 256        \* normalize(stepsFromHome,-256,256)

None == << >>
Some(v) == << v >>
\* Python truthiness of an optional number: None and 0 are falsy
Truthy(opt) == opt # None /\ opt[1] # 0

LedNames == {"redLED", "blueLED", "greenLED", "orangeLED"}

VARIABLES
    delay,                  \* self.delay
    stepsFromHome,          \* self.stepsFromHome
    stepsFromDefaultHome,   \* self.stepsFromDefaultHome
    coil,                   \* levels of coilA1Pin, coilA2Pin, coilB1Pin, coilB2Pin
    led,                    \* level of each LED pin
    position,               \* step cycles executed on the coils, ccw minus cw
    homePos,                \* position at the last set_home
    homeTrack,              \* what happened since the last set_home
    last,                   \* the last call: arguments, outcome, writes made,
                            \* the counters and the delay before it, and the
                            \* percentage of a set_speed_pct right before it
    calls,                  \* number of calls made
    phantom,                \* TRUE once an accepted rotate had numSteps <= 0
    run,                    \* the call in progress: where it is in the code,
                            \* its arguments and locals, what it has emitted
    norm                    \* a call of normalize: arguments and results

vars == << delay, stepsFromHome, stepsFromDefaultHome, coil, led, position,
           homePos, homeTrack, last, calls, phantom, run, norm >>

\* ------------------------------------------------------ functions.py ----
normalize_trunc(value, rangeStart, rangeEnd) ==
    LET shift == value - rangeStart
        rangeWidth == rangeEnd - rangeStart
        q == IF shift >= 0 THEN shift \div rangeWidth
                           ELSE -((-shift) \div rangeWidth)
    IN  (shift - (q * rangeWidth)) + rangeStart

\* floor(shift/rangeWidth) is the floor of the quotient: \div floors
normalize(value, rangeStart, rangeEnd) ==
    LET shift == value - rangeStart
        rangeWidth == rangeEnd - rangeStart
    IN  (shift - ((shift \div rangeWidth) * rangeWidth)) + rangeStart

\* ------------------------------------------------------------ led.py ----
\* The driver object as a record: the fields of Stepper, the pins it
\* drives, and the writes made during the current call.
LED_on(s, name) ==
    IF s.led[name] = 0
    THEN [s EXCEPT !.led[name] = 1, !.ledWrites = @ + 1]
    ELSE s

LED_off_inverted(s, name) ==
    IF s.led[name] = 0
    THEN [s EXCEPT !.led[name] = 0, !.ledWrites = @ + 1]
    ELSE s

LED_off(s, name) ==
    IF s.led[name] = 1
    THEN [s EXCEPT !.led[name] = 0, !.ledWrites = @ + 1]
    ELSE s

\* -------------------------------------------------------- stepper.py ----
set_delay(s, d) == [s EXCEPT !.delay = d, !.res = "ok"]

set_speed_strict(s, secPerRev) ==
    IF secPerRev <= maxSpeed
    THEN [s EXCEPT !.res = "InvalidSpeed"]
    ELSE [s EXCEPT !.delay = (secPerRev * DelayUnitsPerTick) \div StepsPerRev,
                   !.res = "ok"]

\* secPerRev ticks are secPerRev*StepsPerRev delay units; /2050
set_speed(s, secPerRev) ==
    IF secPerRev < maxSpeed
    THEN [s EXCEPT !.res = "InvalidSpeed"]
    ELSE [s EXCEPT !.delay = (secPerRev * DelayUnitsPerTick) \div StepsPerRev,
                   !.res = "ok"]

set_speed_pct_lt(s, pct) ==
    LET p1 == IF pct < PctScale THEN pct * 100 ELSE pct
        p2 == IF p1 > 100 * PctScale THEN 100 * PctScale ELSE p1
        p3 == IF p2 < 0 THEN 0 ELSE p2
    IN  set_speed(s, minSpeed - ((p3 * (minSpeed - maxSpeed)) \div (100 * PctScale)))

set_speed_pct_noclamp(s, pct) ==
    LET p1 == IF pct <= PctScale THEN pct * 100 ELSE pct
        p3 == IF p1 < 0 THEN 0 ELSE p1
    IN  set_speed(s, minSpeed - ((p3 * (minSpeed - maxSpeed)) \div (100 * PctScale)))

set_speed_pct(s, pct) ==
    LET p1 == IF pct <= PctScale THEN pct * 100 ELSE pct
        p2 == IF p1 > 100 * PctScale THEN 100 * PctScale ELSE p1
        p3 == IF p2 < 0 THEN 0 ELSE p2
    IN  set_speed(s, minSpeed - ((p3 * (minSpeed - maxSpeed)) \div (100 * PctScale)))

\* four GPIO.output calls, one per coil line
set_step(s, A1, A2, B1, B2) ==
    [s EXCEPT !.coil = << A1, A2, B1, B2 >>, !.coilWrites = @ + 4]

deactivate(s) ==
    LED_off(LED_off(LED_off(LED_on(set_step(s, 0, 0, 0, 0),
        "redLED"), "blueLED"), "greenLED"), "orangeLED")

\* round(x, 0) of num/den: nearest integer, a tie goes to the even one
RoundHalfEven(num, den) ==
    LET q == num \div den
        r == num % den
    IN  IF 2 * r < den THEN q
        ELSE IF 2 * r > den THEN q + 1
        ELSE IF q % 2 = 0 THEN q ELSE q + 1

num_steps_required(angle) ==
    RoundHalfEven(StepsPerDegreeNum * angle, StepsPerDegreeDen * AngleScale)

\* str.lower() on the direction tokens used
lower(direction) ==
    CASE direction = "CW" -> "cw"
      [] direction = "CCW" -> "ccw"
      [] direction = "Cw" -> "cw"
      [] OTHER -> direction

CwSeq_overlap == << <<1,0,0,1>>, <<1,1,0,1>>, <<0,1,1,0>>, <<1,0,1,0>> >>

CwSeq == << <<1,0,0,1>>, <<0,1,0,1>>, <<0,1,1,0>>, <<1,0,1,0>> >>
CcwSeq_forward == << <<1,0,0,1>>, <<0,1,0,1>>, <<0,1,1,0>>, <<1,0,1,0>> >>

CcwSeq == << <<1,0,1,0>>, <<0,1,1,0>>, <<0,1,0,1>>, <<1,0,0,1>> >>

\* one pass of the body of "for i in range(numSteps)"
Cycle(s, seq) ==
    LET s1 == set_step(s, seq[1][1], seq[1][2], seq[1][3], seq[1][4])
        s2 == set_step(s1, seq[2][1], seq[2][2], seq[2][3], seq[2][4])
        s3 == set_step(s2, seq[3][1], seq[3][2], seq[3][3], seq[3][4])
    IN  set_step(s3, seq[4][1], seq[4][2], seq[4][3], seq[4][4])

StepLoop_short(s, numSteps, seq, sign) ==
    IF numSteps - 1 <= 0 THEN s
    ELSE LET one == Cycle(s, seq)
         IN  [one EXCEPT !.coilWrites = s.coilWrites
                                + (numSteps - 1) * (one.coilWrites - s.coilWrites),
                         !.position = s.position + sign * (numSteps - 1)]

\* the whole loop: range(numSteps) is empty for numSteps <= 0; every pass
\* writes the same four patterns, so numSteps passes leave the lines of one
\* pass and make numSteps times its writes
StepLoop(s, numSteps, seq, sign) ==
    IF numSteps <= 0 THEN s
    ELSE LET one == Cycle(s, seq)
         IN  [one EXCEPT !.coilWrites = s.coilWrites
                                + numSteps * (one.coilWrites - s.coilWrites),
                         !.position = s.position + sign * numSteps]

numStepsOf(angle, steps) ==
    IF Truthy(angle) THEN Some(num_steps_required(angle[1]))
    ELSE IF Truthy(steps) THEN steps
    ELSE None

\* "direction.lower() not in ['cw','ccw']" negated
ValidDirection_any(direction) == TRUE

ValidDirection(direction) == lower(direction) \in {"cw", "ccw"}

\* "self.stepsFromHome -= numSteps" and "self.stepsFromDefaultHome -= numSteps"
\* (sign -1, cw), "+=" for both (sign 1, ccw)
UpdateCounters_ccw_home_only(s, sign, numSteps) ==
    IF sign = 1
    THEN [s EXCEPT !.stepsFromHome = @ + sign * numSteps]
    ELSE [s EXCEPT !.stepsFromHome = @ + sign * numSteps,
                   !.stepsFromDefaultHome = @ + sign * numSteps]

UpdateCounters(s, sign, numSteps) ==
    [s EXCEPT !.stepsFromHome = @ + sign * numSteps,
              !.stepsFromDefaultHome = @ + sign * numSteps]

\* "if not numSteps": None and 0 are both falsy
NoDistance_none_only(numSteps) == numSteps = None

NoDistance(numSteps) == ~Truthy(numSteps)

rotate(s, direction, angle, steps) ==
    IF ~ValidDirection(direction)
    THEN [s EXCEPT !.res = "InvalidDirection"]
    ELSE IF NoDistance(numStepsOf(angle, steps))
    THEN [s EXCEPT !.res = "NoDistanceSpecified"]
    ELSE LET numSteps == numStepsOf(angle, steps)[1]
             s0 == LED_off(s, "redLED")
             s3 == IF lower(direction) = "cw"
                   THEN LET s1 == LED_on(LED_on(s0, "blueLED"), "greenLED")
                            s2 == UpdateCounters(s1, -1, numSteps)
                        IN  StepLoop(s2, numSteps, CwSeq, -1)
                   ELSE IF lower(direction) = "ccw"
                   THEN LET s1 == LED_on(LED_on(s0, "greenLED"), "orangeLED")
                            s2 == UpdateCounters(s1, 1, numSteps)
                        IN  StepLoop(s2, numSteps, CcwSeq, 1)
                   ELSE s0
         IN  [deactivate(s3) EXCEPT !.res = "ok"]

\* "if steps == 0: ... return"
AlreadyHome_never(steps) == FALSE

AlreadyHome(steps) == steps = 0

\* "if default: self.stepsFromDefaultHome = 0 / else: self.stepsFromHome = 0"
\* and then "self.stepsFromHome = 0"
ResetAfterHome_selected_only(r, default) ==
    IF default THEN [r EXCEPT !.stepsFromDefaultHome = 0]
               ELSE [r EXCEPT !.stepsFromHome = 0]

ResetAfterHome(r, default) ==
    LET z == IF default THEN [r EXCEPT !.stepsFromDefaultHome = 0]
                        ELSE [r EXCEPT !.stepsFromHome = 0]
    IN  [z EXCEPT !.stepsFromHome = 0]

\* "if steps < 0: rotate('ccw', ...) else: rotate('cw', ...)"
HomeDirection_swapped(steps) == IF steps < 0 THEN "cw" ELSE "ccw"

HomeDirection(steps) == IF steps < 0 THEN "ccw" ELSE "cw"

go_home(s, default) ==
    LET stepsFromHome0 == IF default THEN s.stepsFromDefaultHome
                                     ELSE s.stepsFromHome
        steps == normalize(stepsFromHome0, -HomeRange, HomeRange)
    IN  IF AlreadyHome(steps)
        THEN [s EXCEPT !.res = "AlreadyHome"]
        ELSE LET r == rotate(s, HomeDirection(steps), None,
                             Some(IF steps < 0 THEN -steps ELSE steps))
             IN  [ResetAfterHome(r, default) EXCEPT !.res = r.res]

set_home(s) == [s EXCEPT !.stepsFromHome = 0, !.res = "ok"]

reset_home_default(s) ==
    [s EXCEPT !.stepsFromDefaultHome = s.stepsFromHome, !.res = "ok"]

reset_home(s) == [s EXCEPT !.stepsFromHome = s.stepsFromDefaultHome, !.res = "ok"]

\* ------------------------------------------------------- the inputs ----
\* (direction, angle, steps); 900 is 90 degrees (128 steps), 3 is 0.3 degree
RotateInputs ==
    { << "up", None, Some(200) >>,
      << "cw", None, None >>, << "CCW", None, Some(0) >>,
      << "cw", Some(0), Some(0) >>, << "CCW", Some(3), None >>,
      << "cw", Some(3), Some(200) >>,
      << "cw", None, Some(200) >>, << "CCW", None, Some(200) >>,
      << "cw", None, Some(256) >>, << "CCW", None, Some(256) >>,
      << "CW", Some(900), None >>, << "ccw", Some(900), Some(200) >>,
      << "cw", None, Some(-8) >> }
Speeds == {39000, 40000, 120000}
Percents == {-50, 0, 50, 100, 5000, 10000, 15000}
Delays == {20500}

\* ------------------------------------------------ the state machine ----
\* the driver object of the current state
Self ==
    [delay |-> delay, stepsFromHome |-> stepsFromHome,
     stepsFromDefaultHome |-> stepsFromDefaultHome,
     coil |-> coil, led |-> led, position |-> position,
     coilWrites |-> 0, ledWrites |-> 0, res |-> "ok"]

NoArgs ==
    [direction |-> "", angle |-> None, steps |-> None, default |-> FALSE,
     arg |-> 0]

NoCall ==
    [op |-> "init", direction |-> "", angle |-> None, steps |-> None,
     default |-> FALSE, arg |-> 0, res |-> "ok", coilWrites |-> 0,
     ledWrites |-> 0, preH |-> 0, preD |-> 0, preDelay |-> InitDelay,
     prePct |-> None]

\* no call in progress
NoRun ==
    [pc |-> "idle", op |-> "", args |-> NoArgs, direction |-> "",
     numSteps |-> 0, i |-> 0, phase |-> 0, line |-> 0, trace |-> << >>,
     coilWrites |-> 0, ledWrites |-> 0, start |-> << >>]

\* the state after a call that returned the object r
Return(r, op, args) ==
    /\ run.pc = "idle"
    /\ run' = NoRun
    /\ delay' = r.delay
    /\ stepsFromHome' = r.stepsFromHome
    /\ stepsFromDefaultHome' = r.stepsFromDefaultHome
    /\ coil' = r.coil
    /\ led' = r.led
    /\ position' = r.position
    /\ last' = [op |-> op, direction |-> args.direction, angle |-> args.angle,
                steps |-> args.steps, default |-> args.default,
                arg |-> args.arg, res |-> r.res,
                coilWrites |-> r.coilWrites, ledWrites |-> r.ledWrites,
                preH |-> stepsFromHome, preD |-> stepsFromDefaultHome,
                preDelay |-> delay,
                prePct |-> IF last.op = "set_speed_pct" THEN Some(last.arg)
                                                        ELSE None]
    /\ calls' = calls + 1
    /\ phantom' = ( \/ phantom
                    \/ /\ op = "rotate" /\ r.res = "ok"
                       /\ numStepsOf(args.angle, args.steps)[1] <= 0 )
    /\ UNCHANGED norm

\* Stepper.__init__ followed by set_LEDs: LED.__init__ turns each LED off,
\* set_LEDs turns the red one on
Init ==
    /\ delay = InitDelay
    /\ stepsFromHome = 0
    /\ stepsFromDefaultHome = 0
    /\ coil = << 0, 0, 0, 0 >>
    /\ led = [n \in LedNames |-> IF n = "redLED" THEN 1 ELSE 0]
    /\ position = 0
    /\ homePos = 0
    /\ homeTrack = "none"
    /\ last = NoCall
    /\ calls = 0
    /\ phantom = FALSE
    /\ run = NoRun
    /\ norm = [value |-> 0, rangeStart |-> -HomeRange, rangeEnd |-> HomeRange,
               result |-> None, shifted |-> None]

SetDelay ==
    \E d \in Delays :
        /\ calls < MaxCalls
        /\ Return(set_delay(Self, d), "set_delay", [NoArgs EXCEPT !.arg = d])
        /\ UNCHANGED << homePos, homeTrack >>

SetSpeed ==
    \E secPerRev \in Speeds :
        /\ calls < MaxCalls
        /\ Return(set_speed(Self, secPerRev), "set_speed",
                  [NoArgs EXCEPT !.arg = secPerRev])
        /\ UNCHANGED << homePos, homeTrack >>

SetSpeedPct ==
    \E pct \in Percents :
        /\ calls < MaxCalls
        /\ Return(set_speed_pct(Self, pct), "set_speed_pct",
                  [NoArgs EXCEPT !.arg = pct])
        /\ UNCHANGED << homePos, homeTrack >>

Rotate ==
    \E in \in RotateInputs :
        LET r == rotate(Self, in[1], in[2], in[3])
        IN  /\ calls < MaxCalls
            /\ Return(r, "rotate", [NoArgs EXCEPT !.direction = in[1],
                                       !.angle = in[2], !.steps = in[3]])
            /\ homeTrack' = IF r.res = "ok"
                                /\ numStepsOf(in[2], in[3])[1] <= 0
                            THEN "none"
                            ELSE IF r.res = "ok" /\ homeTrack = "homed"
                            THEN "none" ELSE homeTrack
            /\ UNCHANGED homePos

GoHome ==
    \E default \in BOOLEAN :
        /\ calls < MaxCalls
        /\ Return(go_home(Self, default), "go_home",
                  [NoArgs EXCEPT !.default = default])
        /\ homeTrack' = IF default
                        THEN (IF homeTrack = "homed" THEN "none" ELSE homeTrack)
                        ELSE (IF homeTrack = "set" THEN "homed" ELSE "none")
        /\ UNCHANGED homePos

SetHome ==
    /\ calls < MaxCalls
    /\ Return(set_home(Self), "set_home", NoArgs)
    /\ homePos' = position
    /\ homeTrack' = "set"

ResetHome ==
    /\ calls < MaxCalls
    /\ Return(reset_home(Self), "reset_home", NoArgs)
    /\ homeTrack' = "none"
    /\ UNCHANGED homePos

Next ==
    \/ SetDelay
    \/ SetSpeed
    \/ SetSpeedPct
    \/ Rotate
    \/ GoHome
    \/ SetHome
    \/ ResetHome

Spec == Init /\ [][Next]_vars

\* ------------------------------------ rotate, one statement at a time ----
MaxStepCalls == 3       \* calls made in one behaviour of SpecSteps

\* (direction, angle, steps); 7 is 0.7 degree (1 step)
StepRotateInputs ==
    { << "up", None, Some(1) >>, << "cw", None, None >>,
      << "cw", None, Some(1) >>, << "CCW", None, Some(2) >>,
      << "ccw", Some(7), None >>, << "CW", None, Some(-1) >> }

\* one GPIO.output on coil line k (1: A1, 2: A2, 3: B1, 4: B2)
output(s, k, level) ==
    [s EXCEPT !.coil[k] = level, !.coilWrites = @ + 1]

\* the two LEDs rotate turns on, in the order of the calls
DirectionLeds_swapped(direction) ==
    IF direction = "cw" THEN << "greenLED", "orangeLED" >>
                        ELSE << "blueLED", "greenLED" >>

DirectionLeds(direction) ==
    IF direction = "cw" THEN << "blueLED", "greenLED" >>
                        ELSE << "greenLED", "orangeLED" >>

\* the LED calls of deactivate, in order: (LED, 1 for on() / 0 for off())
DeactivateLeds ==
    << << "redLED", 1 >>, << "blueLED", 0 >>, << "greenLED", 0 >>,
       << "orangeLED", 0 >> >>

\* the order of the statements of rotate after validation: LED calls,
\* counter update, loop, deactivate
RotatePcAfter_count_last(pc) ==
    CASE pc = "red_off" -> "led_a"
      [] pc = "led_a" -> "led_b"
      [] pc = "led_b" -> "loop"
      [] pc = "loop" -> "count"
      [] pc = "count" -> "deact"

RotatePcAfter(pc) ==
    CASE pc = "red_off" -> "led_a"
      [] pc = "led_a" -> "led_b"
      [] pc = "led_b" -> "count"
      [] pc = "count" -> "loop"
      [] pc = "loop" -> "deact"

\* the driver object during the call in progress
Cur ==
    [Self EXCEPT !.coilWrites = run.coilWrites, !.ledWrites = run.ledWrites]

RunSign == IF run.direction = "cw" THEN -1 ELSE 1
RunSeq == IF run.direction = "cw" THEN CwSeq ELSE CcwSeq

\* one statement took the object to s and the call to r
Step(s, r) ==
    /\ delay' = s.delay
    /\ stepsFromHome' = s.stepsFromHome
    /\ stepsFromDefaultHome' = s.stepsFromDefaultHome
    /\ coil' = s.coil
    /\ led' = s.led
    /\ position' = s.position
    /\ run' = [r EXCEPT !.coilWrites = s.coilWrites, !.ledWrites = s.ledWrites]
    /\ UNCHANGED << homePos, homeTrack, last, calls, phantom, norm >>

\* the call in progress returns
Finish(s, res) ==
    /\ delay' = s.delay
    /\ stepsFromHome' = s.stepsFromHome
    /\ stepsFromDefaultHome' = s.stepsFromDefaultHome
    /\ coil' = s.coil
    /\ led' = s.led
    /\ position' = s.position
    /\ last' = [op |-> run.op, direction |-> run.args.direction,
                angle |-> run.args.angle, steps |-> run.args.steps,
                default |-> run.args.default, arg |-> run.args.arg,
                res |-> res,
                coilWrites |-> s.coilWrites, ledWrites |-> s.ledWrites,
                preH |-> run.start.stepsFromHome,
                preD |-> run.start.stepsFromDefaultHome,
                preDelay |-> run.start.delay,
                prePct |-> IF last.op = "set_speed_pct" THEN Some(last.arg)
                                                        ELSE None]
    /\ calls' = calls + 1
    /\ phantom' = ( phantom \/ ( run.op = "rotate" /\ run.numSteps <= 0 ) )
    /\ homeTrack' =
          IF run.op = "rotate"
          THEN (IF run.numSteps <= 0 \/ homeTrack = "homed" THEN "none"
                                                            ELSE homeTrack)
          ELSE IF run.args.default
          THEN (IF homeTrack = "homed" THEN "none" ELSE homeTrack)
          ELSE (IF homeTrack = "set" THEN "homed" ELSE "none")
    /\ run' = NoRun
    /\ UNCHANGED << homePos, norm >>

\* rotate(direction, angle, steps) is entered, from the caller op: lines
\* 134-145
Enter(op, args, direction, angle, steps) ==
    LET r0 == [NoRun EXCEPT !.op = op, !.args = args, !.start = Self,
                            !.direction = lower(direction)]
    IN  IF ~ValidDirection(direction) \/ NoDistance(numStepsOf(angle, steps))
        THEN IF op = "rotate"
             THEN Return([Self EXCEPT !.res =
                            IF ~ValidDirection(direction)
                            THEN "InvalidDirection"
                            ELSE "NoDistanceSpecified"], op, args)
             ELSE Step(Self, [r0 EXCEPT !.pc = "reset_sel"])
        ELSE Step(Self, [r0 EXCEPT !.pc = "red_off",
                            !.numSteps = numStepsOf(angle, steps)[1]])

CallRotate ==
    \E in \in StepRotateInputs :
        /\ run.pc = "idle"
        /\ calls < MaxStepCalls
        /\ IF ~ValidDirection(in[1]) \/ NoDistance(numStepsOf(in[2], in[3]))
           THEN UNCHANGED << homePos, homeTrack >>
           ELSE TRUE
        /\ Enter("rotate", [NoArgs EXCEPT !.direction = in[1],
                                !.angle = in[2], !.steps = in[3]],
                 in[1], in[2], in[3])

\* go_home up to its call of rotate: lines 195-214
CallGoHome ==
    \E default \in BOOLEAN :
        LET args == [NoArgs EXCEPT !.default = default]
            stepsFromHome0 == IF default THEN stepsFromDefaultHome
                                         ELSE stepsFromHome
            steps == normalize(stepsFromHome0, -HomeRange, HomeRange)
        IN  /\ run.pc = "idle"
            /\ calls < MaxStepCalls
            /\ IF AlreadyHome(steps)
               THEN /\ Return([Self EXCEPT !.res = "AlreadyHome"],
                              "go_home", args)
                    /\ homeTrack' =
                          IF default
                          THEN (IF homeTrack = "homed" THEN "none"
                                                       ELSE homeTrack)
                          ELSE (IF homeTrack = "set" THEN "homed" ELSE "none")
                    /\ UNCHANGED homePos
               ELSE Enter("go_home", args, HomeDirection(steps), None,
                          Some(IF steps < 0 THEN -steps ELSE steps))

\* line 148: self.redLED.off()
RedOff ==
    /\ run.pc = "red_off"
    /\ Step(LED_off(Cur, "redLED"),
            [run EXCEPT !.pc = IF run.direction \in {"cw", "ccw"}
                               THEN RotatePcAfter("red_off") ELSE "deact"])

\* lines 150-151 / 168-169: the two LEDs of the direction
DirLed ==
    /\ run.pc \in {"led_a", "led_b"}
    /\ Step(LED_on(Cur, DirectionLeds(run.direction)
                            [IF run.pc = "led_a" THEN 1 ELSE 2]),
            [run EXCEPT !.pc = RotatePcAfter(run.pc)])

\* lines 153-154 / 171-172
Count ==
    /\ run.pc = "count"
    /\ Step(UpdateCounters(Cur, RunSign, run.numSteps),
            [run EXCEPT !.pc = RotatePcAfter("count")])

\* lines 157 / 175: for i in range(numSteps)
LoopHead ==
    /\ run.pc = "loop"
    /\ Step(Cur, IF run.i < run.numSteps
                 THEN [run EXCEPT !.pc = "write", !.phase = 1, !.line = 1]
                 ELSE [run EXCEPT !.pc = RotatePcAfter("loop")])

\* one of the four GPIO.output calls of a set_step of the loop
WriteLine ==
    /\ run.pc = "write"
    /\ Step(output(Cur, run.line, RunSeq[run.phase][run.line]),
            IF run.line < 4
            THEN [run EXCEPT !.line = @ + 1]
            ELSE [run EXCEPT !.pc = "sleep",
                             !.trace = Append(@, RunSeq[run.phase])])

\* sleep(self.delay); after the fourth one a step cycle has been executed
Sleep ==
    /\ run.pc = "sleep"
    /\ IF run.phase < 4
       THEN Step(Cur, [run EXCEPT !.pc = "write", !.phase = @ + 1, !.line = 1,
                                  !.trace = Append(@, << "sleep", delay >>)])
       ELSE Step([Cur EXCEPT !.position = @ + RunSign],
                 [run EXCEPT !.pc = "loop", !.i = @ + 1, !.phase = 0,
                             !.line = 0,
                             !.trace = Append(@, << "sleep", delay >>)])

\* deactivate, line 109: the four GPIO.output calls of set_step(0,0,0,0)
DeactWrite ==
    /\ run.pc = "deact"
    /\ Step(output(Cur, run.line + 1, 0),
            IF run.line < 3
            THEN [run EXCEPT !.line = @ + 1]
            ELSE [run EXCEPT !.pc = "deact_led", !.line = 1,
                             !.trace = Append(@, << 0, 0, 0, 0 >>)])

\* deactivate, lines 110-113
DeactLed ==
    /\ run.pc = "deact_led"
    /\ LET c == DeactivateLeds[run.line]
       IN  Step(IF c[2] = 1 THEN LED_on(Cur, c[1]) ELSE LED_off(Cur, c[1]),
                IF run.line < 4 THEN [run EXCEPT !.line = @ + 1]
                                ELSE [run EXCEPT !.pc = "ret", !.line = 0])

\* rotate returns, to the caller of the driver or into go_home
RotateReturn ==
    /\ run.pc = "ret"
    /\ IF run.op = "rotate"
       THEN Finish(Cur, "ok")
       ELSE Step(Cur, [run EXCEPT !.pc = "reset_sel"])

\* go_home, lines 220-221
ResetSelected ==
    /\ run.pc = "reset_sel"
    /\ Step(IF run.args.default
            THEN [Cur EXCEPT !.stepsFromDefaultHome = 0]
            ELSE [Cur EXCEPT !.stepsFromHome = 0],
            [run EXCEPT !.pc = "reset_h"])

\* go_home, line 222
ResetStepsFromHome ==
    /\ run.pc = "reset_h"
    /\ Finish([Cur EXCEPT !.stepsFromHome = 0], "ok")

\* the statements of a call in progress
Statement ==
    \/ RedOff
    \/ DirLed
    \/ Count
    \/ LoopHead
    \/ WriteLine
    \/ Sleep
    \/ DeactWrite
    \/ DeactLed
    \/ RotateReturn
    \/ ResetSelected
    \/ ResetStepsFromHome

NextSteps ==
    \/ calls < MaxStepCalls /\ SetSpeed
    \/ calls < MaxStepCalls /\ SetHome
    \/ calls < MaxStepCalls /\ ResetHome
    \/ CallRotate
    \/ CallGoHome
    \/ Statement

SpecSteps == Init /\ [][NextSteps]_vars

\* rotate is blocking and runs to completion: a call in progress always
\* executes its next statement
SpecStepsFair == SpecSteps /\ WF_vars(Statement)

\* a call that went through its statements ends as the call computed at
\* once does
StepsAgreeWithCall ==
    [][ ( run.pc # "idle" /\ run'.pc = "idle" ) =>
          LET r == IF run.op = "rotate"
                   THEN rotate(run.start, run.args.direction, run.args.angle,
                               run.args.steps)
                   ELSE go_home(run.start, run.args.default)
          IN  /\ delay' = r.delay
              /\ stepsFromHome' = r.stepsFromHome
              /\ stepsFromDefaultHome' = r.stepsFromDefaultHome
              /\ coil' = r.coil
              /\ led' = r.led
              /\ position' = r.position
              /\ last'.coilWrites = r.coilWrites
              /\ last'.ledWrites = r.ledWrites
              /\ last'.res = r.res ]_vars

\* ------------------------------------- normalize as a pure function ----
MaxValue == 1030        \* |value| explored, two range widths each way
Ranges == { << -256, 256 >>, << -180, 180 >>, << 0, 5 >>, << 3, 4 >>, << -7, -2 >> }

InitNormalize ==
    /\ delay = InitDelay
    /\ stepsFromHome = 0
    /\ stepsFromDefaultHome = 0
    /\ coil = << 0, 0, 0, 0 >>
    /\ led = [n \in LedNames |-> IF n = "redLED" THEN 1 ELSE 0]
    /\ position = 0
    /\ homePos = 0
    /\ homeTrack = "none"
    /\ last = NoCall
    /\ calls = 0
    /\ phantom = FALSE
    /\ run = NoRun
    /\ \E v \in -MaxValue..MaxValue, rg \in Ranges :
           norm = [value |-> v, rangeStart |-> rg[1], rangeEnd |-> rg[2],
                   result |-> None, shifted |-> None]

\* normalize(value, a, b) and normalize(value + (b - a), a, b)
Normalize ==
    /\ norm.result = None
    /\ norm' = [norm EXCEPT
          !.result = Some(normalize(norm.value, norm.rangeStart, norm.rangeEnd)),
          !.shifted = Some(normalize(norm.value + (norm.rangeEnd - norm.rangeStart),
                                     norm.rangeStart, norm.rangeEnd))]
    /\ UNCHANGED << delay, stepsFromHome, stepsFromDefaultHome, coil, led,
                    position, homePos, homeTrack, last, calls, phantom, run >>

NextNormalize == Normalize

SpecNormalize == InitNormalize /\ [][NextNormalize]_vars

TypeOK ==
    /\ delay \in Nat
    /\ stepsFromHome \in Int
    /\ stepsFromDefaultHome \in Int
    /\ coil \in Seq({0, 1}) /\ Len(coil) = 4
    /\ led \in [LedNames -> {0, 1}]

\* ------------------------------------------------------- the claims ----
Abs(x) == IF x < 0 THEN -x ELSE x
CwTokens == {"cw", "CW", "Cw"}
CcwTokens == {"ccw", "CCW"}
Revolution == 512       \* step cycles in one revolution
Accepted(l) == l.op = "rotate" /\ l.res = "ok"
\* a rotate given as steps=n only
StepsOnly(l, n) == l.angle = None /\ l.steps = Some(n)
NoWrites(l) == l.coilWrites = 0 /\ l.ledWrites = 0
Idle ==
    /\ coil = << 0, 0, 0, 0 >>
    /\ led = [n \in LedNames |-> IF n = "redLED" THEN 1 ELSE 0]

\* C1: rotate(d, steps=n) with n > 0 followed by rotate in the opposite
\* direction with the same n leaves stepsFromHome and stepsFromDefaultHome
\* at the values they had before the pair of calls.
C1_InverseMovesCancel ==
    [][ ( /\ Accepted(last) /\ Accepted(last')
          /\ last.angle = None /\ last'.angle = None
          /\ last.steps = last'.steps /\ last.steps[1] > 0
          /\ \/ last.direction \in CwTokens /\ last'.direction \in CcwTokens
             \/ last.direction \in CcwTokens /\ last'.direction \in CwTokens )
        => ( /\ stepsFromHome' = last.preH
             /\ stepsFromDefaultHome' = last.preD ) ]_vars

\* rotate('CCW', steps=256), set_home(), rotate('cw', steps=200) and then
\* rotate('CCW', steps=200) have returned: the counters are 0 and 256 again
C1_Witness ==
    /\ calls = 4
    /\ Accepted(last) /\ last.direction = "CCW" /\ StepsOnly(last, 200)
    /\ last.preH = -200 /\ last.preD = 56
    /\ stepsFromHome = 0 /\ stepsFromDefaultHome = 256 /\ position = 256

\* C2: normalize(value, -256, 256) lies in [-256, 256) and is congruent to
\* value modulo 512; normalize(value, a, b) = normalize(value + (b-a), a, b).
C2_NormalizeRangePeriodic ==
    norm.result # None =>
        /\ ( norm.rangeStart = -256 /\ norm.rangeEnd = 256 ) =>
              ( /\ -256 <= norm.result[1] /\ norm.result[1] < 256
                /\ (norm.result[1] - norm.value) % 512 = 0 )
        /\ norm.result = norm.shifted

\* normalize(-300, -256, 256) has returned 212
C2_Witness ==
    /\ norm.value = -300 /\ norm.rangeStart = -256 /\ norm.rangeEnd = 256
    /\ norm.result = Some(212) /\ norm.shifted = Some(212)

\* C3: go_home whose selected counter is a multiple of 512 writes no coil
\* line, changes no indicator and leaves both counters and the delay
\* unchanged.
C3_GoHomeNoOp ==
    [][ ( /\ last'.op = "go_home"
          /\ (IF last'.default THEN stepsFromDefaultHome
                                ELSE stepsFromHome) % Revolution = 0 )
        => ( /\ NoWrites(last')
             /\ UNCHANGED << stepsFromHome, stepsFromDefaultHome, delay,
                             coil, led, position >> ) ]_vars

\* go_home(default=True) has returned with stepsFromDefaultHome = 0 and a
\* nonzero stepsFromHome
C3_Witness ==
    /\ last.op = "go_home" /\ last.default /\ last.res = "AlreadyHome"
    /\ last.preD = 0 /\ last.preH # 0
    /\ stepsFromDefaultHome = 0 /\ stepsFromHome = last.preH

\* C4: rotate with a direction other than cw/ccw (in any case) writes
\* nothing and changes nothing, the driver stays Idle, and a valid rotate
\* right after it moves as usual.
C4_InvalidDirection ==
    [][ /\ ( /\ last'.op = "rotate"
              /\ last'.direction \notin CwTokens \cup CcwTokens )
            => ( /\ last'.res = "InvalidDirection"
                 /\ NoWrites(last')
                 /\ UNCHANGED << stepsFromHome, stepsFromDefaultHome, delay,
                                 coil, led, position >>
                 /\ Idle' )
        /\ ( /\ last.op = "rotate" /\ last.res = "InvalidDirection"
              /\ last'.op = "rotate" /\ last'.angle = None
              /\ last'.steps # None /\ last'.steps[1] > 0
              /\ last'.direction \in CwTokens \cup CcwTokens )
            => LET n == IF last'.direction \in CwTokens
                        THEN -(last'.steps[1]) ELSE last'.steps[1]
               IN  /\ last'.res = "ok"
                   /\ stepsFromHome' = stepsFromHome + n
                   /\ stepsFromDefaultHome' = stepsFromDefaultHome + n
                   /\ position' = position + n
                   /\ Idle' ]_vars

\* rotate('up', steps=200) has returned from a moved position
C4_Witness ==
    /\ last.op = "rotate" /\ last.direction = "up" /\ StepsOnly(last, 200)
    /\ last.res = "InvalidDirection"
    /\ stepsFromHome = 256 /\ last.preH = 256

\* C5: rotate with a valid direction and no usable distance (angle and
\* steps each None or 0, or an angle that rounds to 0 steps) fails with
\* NoDistanceSpecified, writes nothing and changes nothing.
NoUsableDistance(angle, steps) ==
    \/ angle \in {None, Some(0)} /\ steps \in {None, Some(0)}
    \/ /\ Truthy(angle)
       /\ 2 * StepsPerDegreeNum * Abs(angle[1]) < StepsPerDegreeDen * AngleScale

C5_NoDistance ==
    [][ ( /\ last'.op = "rotate"
          /\ last'.direction \in CwTokens \cup CcwTokens
          /\ NoUsableDistance(last'.angle, last'.steps) )
        => ( /\ last'.res = "NoDistanceSpecified"
             /\ NoWrites(last')
             /\ UNCHANGED << stepsFromHome, stepsFromDefaultHome, delay,
                             coil, led, position >> ) ]_vars

\* rotate('CCW', steps=0) has returned from a moved position
C5_Witness ==
    /\ last.op = "rotate" /\ last.direction = "CCW"
    /\ last.angle = None /\ last.steps = Some(0)
    /\ last.res = "NoDistanceSpecified"
    /\ stepsFromHome = -200 /\ last.preH = -200

\* C6: set_speed(s) fails with InvalidSpeed for s < maxSpeed and leaves the
\* delay and the counters unchanged; for s >= maxSpeed it sets the delay to
\* s/2050.
C6_SetSpeed ==
    [][ last'.op = "set_speed" =>
          IF last'.arg < 4 * TimeScale
          THEN /\ last'.res = "InvalidSpeed"
               /\ UNCHANGED << delay, stepsFromHome, stepsFromDefaultHome >>
          ELSE /\ last'.res = "ok"
               /\ delay' * 2050 = last'.arg * DelayUnitsPerTick ]_vars

\* set_speed(4.0) has returned and the delay is 4.0/2050
C6_Witness ==
    /\ last.op = "set_speed" /\ last.arg = 4 * TimeScale /\ last.res = "ok"
    /\ last.preDelay # delay /\ delay * 2050 = 4 * TimeScale * DelayUnitsPerTick

\* C7: in every reachable state the per-revolution period, delay * 2050,
\* lies in [maxSpeedSeconds, minSpeedSeconds] = [4 s, 10 s].
C7_PeriodInRange ==
    /\ 4 * TimeScale * DelayUnitsPerTick <= delay * 2050
    /\ delay * 2050 <= 10 * TimeScale * DelayUnitsPerTick

\* C8: set_speed_pct(f) with f in [0,1] and set_speed_pct(100*f) with 100*f
\* in (1,100] leave the same delay, in either order of the two calls.
C8_FractionOrPercent ==
    ( /\ last.op = "set_speed_pct" /\ last.prePct # None
      /\ \/ /\ last.prePct[1] \in 0..PctScale
            /\ last.arg = 100 * last.prePct[1]
            /\ last.arg > PctScale /\ last.arg <= 100 * PctScale
         \/ /\ last.arg \in 0..PctScale
            /\ last.prePct[1] = 100 * last.arg
            /\ last.prePct[1] > PctScale /\ last.prePct[1] <= 100 * PctScale )
    => ( last.res = "ok" /\ delay = last.preDelay )

\* set_speed_pct(50) has returned right after set_speed_pct(0.5): the
\* period is 7 s
C8_Witness ==
    /\ last.op = "set_speed_pct" /\ last.arg = 50 * PctScale
    /\ last.prePct = Some(50) /\ last.res = "ok"
    /\ delay = last.preDelay /\ delay * 2050 = 7 * TimeScale * DelayUnitsPerTick

\* C9: after a go_home that moves (the selected counter is n modulo 512,
\* n in [-256,256), n # 0) stepsFromHome is 0; with default=True
\* stepsFromDefaultHome is 0, with default=False it is its old value - n.
Offset(c) == ((c + 256) % Revolution) - 256

C9_GoHomeResets ==
    [][ ( /\ last'.op = "go_home"
          /\ Offset(IF last'.default THEN stepsFromDefaultHome
                                      ELSE stepsFromHome) # 0 )
        => ( /\ stepsFromHome' = 0
             /\ last'.default => stepsFromDefaultHome' = 0
             /\ ~last'.default =>
                   stepsFromDefaultHome' =
                       stepsFromDefaultHome - Offset(stepsFromHome) ) ]_vars

\* go_home(default=False) has moved from stepsFromHome = 200 with
\* stepsFromDefaultHome = 456
C9_Witness ==
    /\ last.op = "go_home" /\ ~last.default /\ last.res = "ok"
    /\ last.preH = 200 /\ last.preD = 456
    /\ stepsFromHome = 0 /\ stepsFromDefaultHome = 256

\* go_home(default=True) has moved while stepsFromHome differed from
\* stepsFromDefaultHome
C9_WitnessDefault ==
    /\ last.op = "go_home" /\ last.default /\ last.res = "ok"
    /\ last.preH = 0 /\ last.preD = 200
    /\ stepsFromHome = 0 /\ stepsFromDefaultHome = 0

\* C10: after set_home at position X, then positive-distance rotates and
\* go_home(default=True) calls only, go_home(default=False) leaves the
\* motor at X modulo 512 step cycles.
C10_UserHomeIndependent ==
    homeTrack = "homed" => (position - homePos) % Revolution = 0

\* C11: set_home sets stepsFromHome to 0 and reset_home sets it to
\* stepsFromDefaultHome; neither changes stepsFromDefaultHome, the delay, a
\* coil line or an indicator, and neither writes to a pin.
C11_HomeBookkeeping ==
    [][ /\ last'.op = "set_home" => stepsFromHome' = 0
        /\ last'.op = "reset_home" => stepsFromHome' = stepsFromDefaultHome
        /\ last'.op \in {"set_home", "reset_home"} =>
              ( /\ NoWrites(last')
                /\ UNCHANGED << stepsFromDefaultHome, delay, coil, led,
                                position >> ) ]_vars

\* reset_home() has returned where stepsFromHome was 0 and
\* stepsFromDefaultHome was 200
C11_Witness ==
    /\ last.op = "reset_home" /\ last.preH = 0 /\ last.preD = 200
    /\ stepsFromHome = 200 /\ stepsFromDefaultHome = 200

\* C16: go_home whose selected counter has the offset n # 0 makes one
\* rotation of |n| <= 256 step cycles, counter-clockwise for n < 0 and
\* clockwise for n > 0.
C16_ShortestHoming ==
    [][ ( /\ last'.op = "go_home"
          /\ Offset(IF last'.default THEN stepsFromDefaultHome
                                      ELSE stepsFromHome) # 0 )
        => LET n == Offset(IF last'.default THEN stepsFromDefaultHome
                                            ELSE stepsFromHome)
           IN  /\ last'.res = "ok"
               /\ Abs(n) <= 256
               /\ position' = position - n
               /\ last'.coilWrites = 16 * Abs(n) + 4
               /\ last'.ledWrites = 6 ]_vars

\* go_home(default=False) has moved 56 step cycles counter-clockwise from
\* stepsFromHome = 456, the shorter way round
C16_Witness ==
    /\ last.op = "go_home" /\ ~last.default /\ last.res = "ok"
    /\ last.preH = 456 /\ last.preD = 456
    /\ last.coilWrites = 16 * 56 + 4
    /\ position = 512 /\ stepsFromDefaultHome = 512

\* C17: set_speed_pct never fails and leaves a period in [4 s, 10 s]; the
\* input 0 gives 10 s, the inputs 1, 100 and above 100 give 4 s, and of two
\* fractions, or of two percentages, the larger gives no larger delay.
C17_PercentInRange ==
    last.op = "set_speed_pct" =>
        /\ last.res = "ok"
        /\ 4 * TimeScale * DelayUnitsPerTick <= delay * 2050
        /\ delay * 2050 <= 10 * TimeScale * DelayUnitsPerTick
        /\ last.arg = 0 => delay * 2050 = 10 * TimeScale * DelayUnitsPerTick
        /\ ( last.arg = PctScale \/ last.arg >= 100 * PctScale )
              => delay * 2050 = 4 * TimeScale * DelayUnitsPerTick
        /\ ( /\ last.prePct # None
              /\ \/ last.prePct[1] \in 0..PctScale /\ last.arg \in 0..PctScale
                 \/ /\ last.prePct[1] \in (PctScale + 1)..(100 * PctScale)
                    /\ last.arg \in (PctScale + 1)..(100 * PctScale)
              /\ last.prePct[1] <= last.arg )
              => delay <= last.preDelay

\* set_speed_pct(150) has returned right after set_speed_pct(50): the
\* period went from 7 s to 4 s
C17_Witness ==
    /\ last.op = "set_speed_pct" /\ last.arg = 150 * PctScale
    /\ last.prePct = Some(50 * PctScale) /\ last.res = "ok"
    /\ last.preDelay * 2050 = 7 * TimeScale * DelayUnitsPerTick
    /\ delay * 2050 = 4 * TimeScale * DelayUnitsPerTick

\* C18: when go_home(default=True) returns after accepted rotates of
\* positive distance only, the net number of step cycles executed since
\* construction is a multiple of 512.
C18_DefaultHomeReached ==
    ( last.op = "go_home" /\ last.default /\ ~phantom )
        => position % Revolution = 0

\* go_home(default=True) has moved back after set_home and further rotates
C18_Witness ==
    /\ last.op = "go_home" /\ last.default /\ last.res = "ok" /\ ~phantom
    /\ last.preD = 456 /\ last.preH = 256
    /\ position = 512 /\ stepsFromDefaultHome = 0

\* C19: between calls stepsFromDefaultHome is congruent modulo 512 to the
\* net number of step cycles executed since construction, whatever steps
\* or angle the accepted rotates were given.
C19_CounterMatchesMotion ==
    (stepsFromDefaultHome - position) % Revolution = 0

\* C12: in a rotate that passed validation both counters hold their final
\* values (start - n for cw, start + n for ccw) before the first coil-line
\* write and at every later statement of the call.
C12_UpdateThenMove ==
    run.pc \in {"write", "sleep", "deact", "deact_led", "ret"} =>
        LET n == IF run.direction = "cw" THEN -run.numSteps ELSE run.numSteps
        IN  /\ stepsFromHome = run.start.stepsFromHome + n
            /\ stepsFromDefaultHome = run.start.stepsFromDefaultHome + n

\* rotate('CCW', steps=2) has executed one of its two step cycles: the
\* counters are already 2 ahead, the motor 1
C12_Witness ==
    /\ run.pc = "sleep" /\ run.op = "rotate" /\ run.numSteps = 2
    /\ run.direction = "ccw" /\ run.i = 1 /\ run.phase = 2
    /\ stepsFromHome = run.start.stepsFromHome + 2
    /\ stepsFromDefaultHome = run.start.stepsFromDefaultHome + 2
    /\ position = run.start.position + 1

\* C13: a rotate with n > 0 steps emits n times the four patterns of its
\* direction, each followed by one sleep of the delay, then de-energizes
\* and returns; each of the 4n patterns has one line of each pair high.
ClaimCw == << <<1,0,0,1>>, <<0,1,0,1>>, <<0,1,1,0>>, <<1,0,1,0>> >>
ClaimCcw == << <<1,0,1,0>>, <<0,1,1,0>>, <<0,1,0,1>>, <<1,0,0,1>> >>
CycleEvents(seq, d) ==
    << seq[1], << "sleep", d >>, seq[2], << "sleep", d >>,
       seq[3], << "sleep", d >>, seq[4], << "sleep", d >> >>
RECURSIVE Repeat(_, _)
Repeat(ev, n) == IF n <= 0 THEN << >> ELSE ev \o Repeat(ev, n - 1)

C13_StepSequence ==
    ( run.pc = "ret" /\ run.numSteps > 0 ) =>
        /\ run.trace =
              Repeat(CycleEvents(IF run.direction = "cw" THEN ClaimCw
                                                         ELSE ClaimCcw,
                                 delay), run.numSteps)
              \o << << 0, 0, 0, 0 >> >>
        /\ Len(run.trace) = 8 * run.numSteps + 1
        /\ \A k \in 1..(8 * run.numSteps) :
              Len(run.trace[k]) = 4 =>
                  /\ run.trace[k][1] + run.trace[k][2] = 1
                  /\ run.trace[k][3] + run.trace[k][4] = 1

\* rotate('CCW', steps=2) has emitted its 8 patterns and is about to return
C13_Witness ==
    /\ run.pc = "ret" /\ run.op = "rotate" /\ run.direction = "ccw"
    /\ run.numSteps = 2 /\ Len(run.trace) = 17
    /\ run.trace[1] = << 1, 0, 1, 0 >> /\ run.trace[15] = << 1, 0, 0, 1 >>

\* C14: outside the body of rotate the coil lines are low, the idle
\* indicator is on and the others are off; Rotating is entered only by a
\* rotate with a valid direction and a nonzero distance and left only at
\* the end of deactivate; every Rotating episode reaches Idle.
Rotating ==
    run.pc \in {"red_off", "led_a", "led_b", "count", "loop", "write",
                "sleep", "deact", "deact_led"}

C14_IdleRotating ==
    /\ [](~Rotating => Idle)
    /\ [][ /\ ( ~Rotating /\ Rotating' ) =>
                ( /\ run.pc = "idle" /\ run'.pc = "red_off"
                  /\ run'.direction \in {"cw", "ccw"}
                  /\ run'.numSteps # 0 )
           /\ ( Rotating /\ ~Rotating' ) =>
                ( run.pc = "deact_led" /\ run'.pc = "ret" ) ]_vars
    /\ ( Rotating ~> ~Rotating )

\* rotate('CCW', steps=2) has gone through Rotating and is Idle again
C14_Witness ==
    /\ run.pc = "ret" /\ run.op = "rotate" /\ run.numSteps = 2
    /\ position = run.start.position + 2
    /\ Idle /\ run.ledWrites = 6 /\ run.coilWrites = 36

\* C15: while a rotation is stepping the idle indicator is off and exactly
\* the pair of the direction is on (blue and green for cw, orange and green
\* for ccw); the idle indicator is never on with another one while a coil
\* line is high.
C15_IndicatorsWhileStepping ==
    /\ ( run.pc \in {"write", "sleep"} \/ ( run.pc = "loop" /\ run.i > 0 ) )
          => led = [n \in LedNames |->
                      IF n = "greenLED" THEN 1
                      ELSE IF n = "blueLED" /\ run.direction = "cw" THEN 1
                      ELSE IF n = "orangeLED" /\ run.direction = "ccw" THEN 1
                      ELSE 0]
    /\ coil # << 0, 0, 0, 0 >>
          => ~( led["redLED"] = 1
                /\ \E n \in LedNames \ {"redLED"} : led[n] = 1 )

\* rotate('cw', steps=1) is between two patterns: blue and green are on
C15_Witness ==
    /\ run.pc = "sleep" /\ run.direction = "cw" /\ run.phase = 2
    /\ led["blueLED"] = 1 /\ led["greenLED"] = 1
    /\ led["redLED"] = 0 /\ led["orangeLED"] = 0
    /\ coil = << 0, 1, 0, 1 >>

\* C20: after every single line write of a rotation the two lines of a
\* coil pair (A1 with A2, B1 with B2) are never both high.
C20_PairNeverBothHigh ==
    /\ ~( coil[1] = 1 /\ coil[2] = 1 )
    /\ ~( coil[3] = 1 /\ coil[4] = 1 )

\* C20 as amended: whenever no set_step of the loop is part-way through
\* its four line writes, the two lines of a coil pair are never both high.
C20_PatternsExclusive ==
    ~( run.pc = "write" /\ run.line > 1 ) =>
        /\ ~( coil[1] = 1 /\ coil[2] = 1 )
        /\ ~( coil[3] = 1 /\ coil[4] = 1 )

\* rotate('cw', ...) has completed set_step(0,1,1,0), whose third write
\* raised B1 while B2 was still high
C20_Witness ==
    /\ run.pc = "sleep" /\ run.direction = "cw" /\ run.phase = 3
    /\ coil = << 0, 1, 1, 0 >>

====
